---- MODULE Spec2Model ----
(***************************************************************************)
(* REST API authorizer (lambda_function.py): token extraction from the      *)
(* request headers, OIDC discovery, signing-key resolution, JWT             *)
(* verification and the IAM policy returned to the API gateway.             *)
(*                                                                         *)
(* Text is modelled as sequences of one-character strings so that the      *)
(* header normalisation and the regular expression are computed, character *)
(* by character, the way the code computes them.                           *)
(***************************************************************************)
EXTENDS Integers, Sequences, FiniteSets, TLC

VARIABLES
    has_crypto,     \* jwt.algorithms.has_crypto of the running process
    now,            \* wall clock, in the time units of exp/nbf/iat and of lifespan
    pc,             \* position of the handler
    event,          \* the Lambda event: headers (ordered name/value pairs) and methodArn
    jwt,            \* what the three segments carried by the request decode to
    id_token,       \* local of lambda_handler
    resp,           \* local of id_token_is_valid: the discovery response
    oidc_metadata,  \* local of id_token_is_valid
    jwk_set_cache,  \* the key-set cache of the PyJWKClient built by this call
    signing_key,    \* local of id_token_is_valid
    jwt_data,       \* local of lambda_handler
    result,         \* what lambda_handler gave its caller: a policy or a raised exception
    trace,          \* history: the stages this request went through, in order
    net,            \* history: the network fetches this request made, in order
    failed,         \* history: whether a stage of this request has failed
    calls           \* history: the completed validations (recorded by ReturnRecorded only)

vars == <<has_crypto, now, pc, event, jwt, id_token, resp, oidc_metadata,
          jwk_set_cache, signing_key, jwt_data, result, trace, net, failed, calls>>

----------------------------------------------------------------------------
(* Bounds of the model *)

MaxDefects == 1
MaxBodyLen == 7
MaxTicks == 2
MaxCalls == 2

(* Program constants *)

Lifespan == 360

\* the clock advances in steps of half the cache lifespan: two consecutive
\* instants are within one lifespan of each other, the next one is not
TickStep == Lifespan \div 2

----------------------------------------------------------------------------
(* Characters and strings *)

Uppers == <<"A","B","C","D","E","F","G","H","I","J","K","L","M",
            "N","O","P","Q","R","S","T","U","V","W","X","Y","Z">>
Lowers == <<"a","b","c","d","e","f","g","h","i","j","k","l","m",
            "n","o","p","q","r","s","t","u","v","w","x","y","z">>
Digits == {"0","1","2","3","4","5","6","7","8","9"}

Range(s) == {s[i] : i \in DOMAIN s}

\* the character class [A-Za-z0-9-_] of the pattern
IsTokenChar(c) == c \in Range(Uppers) \cup Range(Lowers) \cup Digits \cup {"-", "_"}

\* the class \s of the pattern (the ASCII members)
IsSpace(c) == c \in {" ", "\t", "\n", "\r", "\f"}

\* str.lower() on one character, then on a string
LowerChar(c) ==
    IF c \in Range(Uppers)
    THEN Lowers[CHOOSE i \in DOMAIN Uppers : Uppers[i] = c]
    ELSE c

Lower(s) == [i \in DOMAIN s |-> LowerChar(s[i])]

Bearer == <<"B","e","a","r","e","r">>
authorization == <<"a","u","t","h","o","r","i","z","a","t","i","o","n">>

----------------------------------------------------------------------------
(* get_id_token: the pattern and the header lookup *)

RECURSIVE RunLen(_, _)
\* [A-Za-z0-9-_]+ at position i: the length of the longest run of class
\* characters starting there (0: no match).  The quantifier is greedy and the
\* class excludes ".", so giving characters back can never make the following
\* \. match: the longest run is the only candidate.
RunLen(s, i) ==
    IF i <= Len(s) /\ IsTokenChar(s[i]) THEN 1 + RunLen(s, i + 1) ELSE 0

\* ([A-Za-z0-9-_]+\.[A-Za-z0-9-_]+\.[A-Za-z0-9-_]+) at position i: the position
\* just after the match, or 0 when it does not match.  Nothing anchors the end.
MatchToken(s, i) ==
    LET n1 == RunLen(s, i)
        d1 == i + n1
        n2 == RunLen(s, d1 + 1)
        d2 == d1 + 1 + n2
        n3 == RunLen(s, d2 + 1)
    IN  IF /\ n1 > 0
           /\ d1 <= Len(s) /\ s[d1] = "."
           /\ n2 > 0
           /\ d2 <= Len(s) /\ s[d2] = "."
           /\ n3 > 0
        THEN d2 + 1 + n3
        ELSE 0

\* (?:Bearer\s) at the start of s
MatchBearer(s) ==
    /\ Len(s) >= Len(Bearer) + 1
    /\ SubSeq(s, 1, Len(Bearer)) = Bearer
    /\ IsSpace(s[Len(Bearer) + 1])

\* re.match(pattern, s): anchored at the start of s only.  The optional group
\* is tried first; when the rest fails after it, the match is retried without it.
re_match(s) ==
    LET afterBearer == IF MatchBearer(s) THEN MatchToken(s, Len(Bearer) + 2) ELSE 0
        plain       == MatchToken(s, 1)
    IN  IF afterBearer # 0
        THEN [matched |-> TRUE, group1 |-> SubSeq(s, Len(Bearer) + 2, afterBearer - 1)]
        ELSE IF plain # 0
        THEN [matched |-> TRUE, group1 |-> SubSeq(s, 1, plain - 1)]
        ELSE [matched |-> FALSE, group1 |-> <<>>]

\* { k.lower(): v for k, v in event["headers"].items() }, read at "authorization":
\* the indices of the entries whose lowered name is "authorization"; a later
\* entry overwrites an earlier one.
AuthEntries(headers) == {i \in DOMAIN headers : Lower(headers[i][1]) = authorization}

NormalizedAuthorization(headers) ==
    LET idx == AuthEntries(headers)
    IN  headers[CHOOSE i \in idx : \A j \in idx : j <= i][2]

get_id_token(ev) ==
    IF AuthEntries(ev.headers) # {}
    THEN LET m == re_match(NormalizedAuthorization(ev.headers))
         IN  IF m.matched
             THEN [raised |-> "", value |-> m.group1]
             ELSE [raised |-> "ValueError", value |-> <<>>]
    ELSE [raised |-> "ValueError", value |-> <<>>]

----------------------------------------------------------------------------
(* Process configuration *)

AUTHORITY == "https://idp.example"
AUDIENCE == "osml-api"

----------------------------------------------------------------------------
(* Requests *)

Authorization == <<"A","u","t","h","o","r","i","z","a","t","i","o","n">>
AUTHORIZATION == <<"A","U","T","H","O","R","I","Z","A","T","I","O","N">>
Host == <<"H","o","s","t">>

Tok3 == <<"a","-",".","B","_",".","9">>
BearerTok3 == Bearer \o <<" ">> \o Tok3

BadValue == <<"a",".","b">>

\* authorization values: with the prefix, bare, with a fourth segment, with two
\* segments only, with a lower-case prefix, empty
HeaderValues ==
    { BearerTok3,
      Tok3,
      Tok3 \o <<".","d">>,
      BadValue,
      Lower(Bearer) \o <<" ">> \o Tok3,
      <<>> }

\* header mappings: none, no authorization entry, one entry under each case
\* variant of the name, and two entries whose names differ in case only
HeaderMaps ==
    { <<>>, << <<Host, <<"x">> >> >> }
    \cup { << <<authorization, v>> >> : v \in HeaderValues }
    \cup { << <<Authorization, BearerTok3>> >>, << <<AUTHORIZATION, BadValue>> >> }
    \cup { << <<Authorization, BadValue>>, <<authorization, BearerTok3>> >>,
           << <<Authorization, BearerTok3>>, <<authorization, BadValue>> >> }

Resources == { "arn:aws:execute-api:us-west-2:123456789012:api/prod/GET/resource",
               "arn:aws:execute-api:us-west-2:123456789012:api/prod/POST/other" }

Events == [headers : HeaderMaps, methodArn : Resources]

NoEvent == [headers |-> <<>>, methodArn |-> ""]

----------------------------------------------------------------------------
(* Tokens: what the three segments decode to.  NoStr / NoInt stand for a   *)
(* header parameter or a claim that the token does not carry.              *)

NoStr == "<absent>"
NoInt == 0 - 1

Far == 10 * Lifespan
Soon == TickStep + TickStep \div 2

ClaimNames == {"sub", "iss", "aud", "exp", "nbf", "iat"}
TokenFields == {"decodable", "alg", "kid", "signer"} \cup ClaimNames

ValidToken ==
    [decodable |-> TRUE, alg |-> "RS256", kid |-> "k1", signer |-> "k1",
     sub |-> "user-123", iss |-> AUTHORITY, aud |-> AUDIENCE,
     exp |-> Far, nbf |-> 0, iat |-> 0]

AllTokens ==
    [decodable : BOOLEAN,
     alg : {"RS256", "HS256"},
     kid : {"k1", "k2", NoStr},
     signer : {"k1", "k2"},
     sub : {"user-123", "username", NoStr},
     iss : {AUTHORITY, "https://evil.example", NoStr},
     aud : {AUDIENCE, "other-api", NoStr},
     exp : {Far, Soon, 0, NoInt},
     nbf : {0, Soon, NoInt},
     iat : {0, Far, NoInt}]

Defects(t) == Cardinality({f \in TokenFields : t[f] # ValidToken[f]})

\* the tokens of the model: the valid token with at most MaxDefects fields changed
Tokens == {t \in AllTokens : Defects(t) <= MaxDefects}

Absent(t, c) == IF c \in {"exp", "nbf", "iat"} THEN t[c] = NoInt ELSE t[c] = NoStr

\* the payload dictionary of a token: the claims it carries
Payload(t) == [c \in {x \in ClaimNames : ~Absent(t, x)} |-> t[c]]

NoData == [c \in {} |-> 0]

----------------------------------------------------------------------------
(* The identity provider's answers *)

JwksUri == "https://idp.example/keys"

\* requests.get either raises (error) or returns a response
DiscoveryResponses ==
    { [error |-> "Timeout", status_code |-> 0, content |-> "none"],
      [error |-> "", status_code |-> 200, content |-> "metadata"],
      [error |-> "", status_code |-> 200, content |-> "no_jwks_uri"],
      [error |-> "", status_code |-> 200, content |-> "html"],
      [error |-> "", status_code |-> 404, content |-> "html"],
      [error |-> "", status_code |-> 503, content |-> "metadata"] }

NoResp == [error |-> "", status_code |-> 0, content |-> "none"]

\* resp.json(): the parsed body, or JSONDecodeError
resp_json(r) ==
    CASE r.content = "metadata" ->
            [raised |-> "", value |-> [issuer |-> AUTHORITY, jwks_uri |-> JwksUri]]
      [] r.content = "no_jwks_uri" ->
            [raised |-> "", value |-> [issuer |-> AUTHORITY]]
      [] OTHER ->
            [raised |-> "JSONDecodeError", value |-> [issuer |-> ""]]

NoMetadata == [issuer |-> ""]

\* the key-set endpoint: a fetch error, or the set of key identifiers it serves
JwksResponses ==
    { [error |-> "PyJWKClientConnectionError", keys |-> {}],
      [error |-> "", keys |-> {"k1"}],
      [error |-> "", keys |-> {"k2"}],
      [error |-> "", keys |-> {"k1", "k2"}] }

\* an empty key-set cache (a PyJWKClient just built)
EmptyCache == [filled |-> FALSE, keys |-> {}, at |-> 0]

----------------------------------------------------------------------------
(* jwt.decode with the options of id_token_is_valid *)

\* algorithms=["RS256"], verify_signature: the declared algorithm is the allowed
\* one and the signature was made by the key handed to decode
VerifySignature(t, key) == t.alg = "RS256" /\ t.signer = key

\* verify_exp left off: the expiry is not looked at
VerifyExp_off(payload, time) == TRUE

\* verify_exp: a token that carries exp is rejected once exp <= now
VerifyExp(payload, time) == "exp" \in DOMAIN payload => payload.exp > time

\* verify_nbf: a token that carries nbf is rejected while nbf > now
VerifyNbf(payload, time) == "nbf" \in DOMAIN payload => payload.nbf <= time

\* verify_iat: a token that carries iat is rejected while iat > now
VerifyIat(payload, time) == "iat" \in DOMAIN payload => payload.iat <= time

\* verify_iss with issuer=authority: iss is required and must equal it
VerifyIss(payload, issuer) == "iss" \in DOMAIN payload /\ payload.iss = issuer

\* verify_aud with audience=audience: aud is required and must equal it
VerifyAud(payload, audience) == "aud" \in DOMAIN payload /\ payload.aud = audience

\* every failure of jwt.decode is a subclass of PyJWTError
jwt_decode(t, key, issuer, audience, time) ==
    IF /\ VerifySignature(t, key)
       /\ VerifyIat(Payload(t), time)
       /\ VerifyNbf(Payload(t), time)
       /\ VerifyExp(Payload(t), time)
       /\ VerifyIss(Payload(t), issuer)
       /\ VerifyAud(Payload(t), audience)
    THEN [raised |-> "", data |-> Payload(t)]
    ELSE [raised |-> "PyJWTError", data |-> NoData]

----------------------------------------------------------------------------
(* generate_policy and the two ways lambda_handler uses it *)

DefaultUsername == "username"

generate_policy(effect, resource, username) ==
    [principalId |-> username,
     policyDocument |->
        [Version |-> "2012-10-17",
         Statement |-> << [Action |-> "execute-api:Invoke",
                           Effect |-> effect,
                           Resource |-> resource] >>]]

\* the Deny decision built with the context entry of the Allow branch
DenyPolicy_withContext(ev) ==
    [context |-> [username |-> DefaultUsername]]
        @@ generate_policy("Deny", ev.methodArn, DefaultUsername)

\* generate_policy(effect="Deny", resource=event["methodArn"])
DenyPolicy(ev) == generate_policy("Deny", ev.methodArn, DefaultUsername)

\* the Allow decision with the principal left at its default
AllowPolicy_defaultPrincipal(ev, data) ==
    [context |-> [username |-> data.sub]]
        @@ generate_policy("Allow", ev.methodArn, DefaultUsername)

\* generate_policy(effect="Allow", ..., username=jwt_data["sub"]) and then
\* policy["context"] = {"username": jwt_data["sub"]}
AllowPolicy(ev, data) ==
    [context |-> [username |-> data.sub]]
        @@ generate_policy("Allow", ev.methodArn, data.sub)

Returned(policy) == [kind |-> "returned", policy |-> policy, exc |-> ""]
Raised(exc) == [kind |-> "raised", policy |-> [principalId |-> ""], exc |-> exc]
NoResult == [kind |-> "none", policy |-> [principalId |-> ""], exc |-> ""]

----------------------------------------------------------------------------
(* The handler, one action per step *)

Init ==
    /\ has_crypto \in BOOLEAN
    /\ now = 0
    /\ pc = "idle"
    /\ event = NoEvent
    /\ jwt = ValidToken
    /\ id_token = <<>>
    /\ resp = NoResp
    /\ oidc_metadata = NoMetadata
    /\ jwk_set_cache = EmptyCache
    /\ signing_key = NoStr
    /\ jwt_data = NoData
    /\ result = NoResult
    /\ trace = <<>>
    /\ net = <<>>
    /\ failed = FALSE
    /\ calls = <<>>

\* the gateway calls lambda_handler(event, context)
Begin(e, t) ==
    /\ pc = "idle"
    /\ pc' = "get_id_token"
    /\ event' = e
    /\ jwt' = t
    /\ trace' = <<"Start">>
    /\ UNCHANGED <<has_crypto, now, id_token, resp, oidc_metadata, jwk_set_cache,
                   signing_key, jwt_data, result, net, failed, calls>>

Invoke ==
    /\ pc = "idle"
    /\ \E e \in Events, t \in Tokens : Begin(e, t)

\* id_token = get_id_token(event); if not id_token: return Deny
ExtractToken ==
    /\ pc = "get_id_token"
    /\ LET r == get_id_token(event)
       IN  IF r.raised # ""
           THEN /\ result' = Raised(r.raised)
                /\ pc' = "done"
                /\ failed' = TRUE
                /\ trace' = Append(trace, "ExtractToken")
                /\ UNCHANGED id_token
           ELSE /\ id_token' = r.value
                /\ IF r.value = <<>>
                   THEN /\ result' = Returned(DenyPolicy(event))
                        /\ pc' = "done"
                        /\ failed' = TRUE
                        /\ trace' = trace \o <<"ExtractToken", "Deny">>
                   ELSE /\ pc' = "id_token_is_valid"
                        /\ trace' = Append(trace, "ExtractToken")
                        /\ UNCHANGED <<result, failed>>
    /\ UNCHANGED <<has_crypto, now, event, jwt, resp, oidc_metadata, jwk_set_cache,
                   signing_key, jwt_data, net, calls>>

\* an entry of the fetch history: which endpoint, and whether it gave a usable answer
Fetch(what, ok) == [what |-> what, ok |-> ok]

\* the status check loosened to "not a server error"
status_ok_below500(r) == r.status_code < 500

\* if resp.status_code != 200: return False
status_ok(r) == r.status_code = 200

\* id_token_is_valid up to the status check: the crypto check, requests.get
FetchDiscovery ==
    /\ pc = "id_token_is_valid"
    /\ trace' = Append(trace, "ResolveKey")
    /\ IF ~has_crypto
       THEN /\ pc' = "deny"
            /\ failed' = TRUE
            /\ UNCHANGED <<resp, net, result>>
       ELSE \E r \in DiscoveryResponses :
               /\ net' = Append(net, Fetch("discovery", r.error = "" /\ r.status_code = 200))
               /\ IF r.error # ""
                  THEN /\ result' = Raised(r.error)
                       /\ pc' = "done"
                       /\ failed' = TRUE
                       /\ UNCHANGED resp
                  ELSE /\ resp' = r
                       /\ UNCHANGED result
                       /\ IF status_ok(r)
                          THEN pc' = "resp_json" /\ UNCHANGED failed
                          ELSE pc' = "deny" /\ failed' = TRUE
    /\ UNCHANGED <<has_crypto, now, event, jwt, id_token, oidc_metadata, jwk_set_cache,
                   signing_key, jwt_data, calls>>

\* oidc_metadata = resp.json(), outside the try block; then, inside it,
\* jwt.PyJWKClient(oidc_metadata["jwks_uri"], cache_jwk_set=True, lifespan=360):
\* a KeyError is no PyJWTError, so the except clause lets it through.  The
\* client, and with it the key-set cache, is built anew by every call.
ParseMetadata ==
    /\ pc = "resp_json"
    /\ LET j == resp_json(resp)
       IN  IF j.raised # ""
           THEN /\ result' = Raised(j.raised)
                /\ pc' = "done"
                /\ failed' = TRUE
                /\ UNCHANGED <<oidc_metadata, jwk_set_cache>>
           ELSE /\ oidc_metadata' = j.value
                /\ IF "jwks_uri" \in DOMAIN j.value
                   THEN /\ jwk_set_cache' = EmptyCache
                        /\ pc' = "get_signing_key"
                        /\ UNCHANGED <<result, failed>>
                   ELSE /\ result' = Raised("KeyError")
                        /\ pc' = "done"
                        /\ failed' = TRUE
                        /\ UNCHANGED jwk_set_cache
    /\ UNCHANGED <<has_crypto, now, event, jwt, id_token, resp, signing_key, jwt_data,
                   trace, net, calls>>

\* the cached key set is served while it is younger than the lifespan
cache_valid(cache, time) == cache.filled /\ time < cache.at + Lifespan

\* match_kid: the key of the set whose identifier is the token's
match_kid(keys, kid) == kid \in keys

\* the outcome of looking the token's kid up in a key set
KeyLookup(keys) ==
    IF match_kid(keys, jwt.kid)
    THEN signing_key' = jwt.kid /\ pc' = "decode" /\ UNCHANGED failed
    ELSE pc' = "deny" /\ failed' = TRUE /\ UNCHANGED signing_key

\* get_signing_keys(refresh=True): when no key of the set in hand has the
\* token's kid, the client fetches the key set once more, past its cache, and
\* looks again; a failed fetch clears the cache
RefreshKeys(fetched) ==
    \E k \in JwksResponses :
        /\ net' = Append(fetched, Fetch("jwks", k.error = ""))
        /\ IF k.error # ""
           THEN /\ jwk_set_cache' = EmptyCache
                /\ pc' = "deny"
                /\ failed' = TRUE
                /\ UNCHANGED signing_key
           ELSE /\ jwk_set_cache' = [filled |-> TRUE, keys |-> k.keys, at |-> now]
                /\ KeyLookup(k.keys)

\* signing_key = jwks_client.get_signing_key_from_jwt(id_token): the token's
\* header is decoded, the key set is taken from the client's cache or fetched,
\* and the key with the token's kid is looked up, after a refresh if need be;
\* every failure is a PyJWTError, which the except clause turns into False
GetSigningKey ==
    /\ pc = "get_signing_key"
    /\ IF ~jwt.decodable
       THEN /\ pc' = "deny"
            /\ failed' = TRUE
            /\ UNCHANGED <<net, jwk_set_cache, signing_key>>
       ELSE IF cache_valid(jwk_set_cache, now)
       THEN IF match_kid(jwk_set_cache.keys, jwt.kid)
            THEN KeyLookup(jwk_set_cache.keys) /\ UNCHANGED <<net, jwk_set_cache>>
            ELSE RefreshKeys(net)
       ELSE \E k \in JwksResponses :
               IF k.error # ""
               THEN /\ net' = Append(net, Fetch("jwks", FALSE))
                    /\ pc' = "deny"
                    /\ failed' = TRUE
                    /\ UNCHANGED <<jwk_set_cache, signing_key>>
               ELSE IF match_kid(k.keys, jwt.kid)
               THEN /\ net' = Append(net, Fetch("jwks", TRUE))
                    /\ jwk_set_cache' = [filled |-> TRUE, keys |-> k.keys, at |-> now]
                    /\ KeyLookup(k.keys)
               ELSE RefreshKeys(Append(net, Fetch("jwks", TRUE)))
    /\ UNCHANGED <<has_crypto, now, event, jwt, id_token, resp, oidc_metadata, jwt_data,
                   result, trace, calls>>

\* data = jwt.decode(...); return data / except PyJWTError: return False; and
\* the test "if jwt_data := id_token_is_valid(...)" of lambda_handler
Decode ==
    /\ pc = "decode"
    /\ trace' = Append(trace, "Validate")
    /\ LET d == jwt_decode(jwt, signing_key, AUTHORITY, AUDIENCE, now)
       IN  IF d.raised = "" /\ DOMAIN d.data # {}
           THEN jwt_data' = d.data /\ pc' = "allow" /\ UNCHANGED failed
           ELSE pc' = "deny" /\ failed' = TRUE /\ UNCHANGED jwt_data
    /\ UNCHANGED <<has_crypto, now, event, jwt, id_token, resp, oidc_metadata,
                   jwk_set_cache, signing_key, result, net, calls>>

\* the Allow branch of lambda_handler; jwt_data["sub"] raises KeyError when the
\* verified claims carry no sub
BuildAllow ==
    /\ pc = "allow"
    /\ pc' = "done"
    /\ IF "sub" \in DOMAIN jwt_data
       THEN /\ result' = Returned(AllowPolicy(event, jwt_data))
            /\ trace' = Append(trace, "Allow")
            /\ UNCHANGED failed
       ELSE /\ result' = Raised("KeyError")
            /\ failed' = TRUE
            /\ UNCHANGED trace
    /\ UNCHANGED <<has_crypto, now, event, jwt, id_token, resp, oidc_metadata,
                   jwk_set_cache, signing_key, jwt_data, net, calls>>

\* the last two lines of lambda_handler
BuildDeny ==
    /\ pc = "deny"
    /\ pc' = "done"
    /\ result' = Returned(DenyPolicy(event))
    /\ trace' = Append(trace, "Deny")
    /\ UNCHANGED <<has_crypto, now, event, jwt, id_token, resp, oidc_metadata,
                   jwk_set_cache, signing_key, jwt_data, net, failed, calls>>

\* the call is over: its locals, the PyJWKClient and its cache among them, are gone
Forget ==
    /\ pc' = "idle"
    /\ event' = NoEvent
    /\ jwt' = ValidToken
    /\ id_token' = <<>>
    /\ resp' = NoResp
    /\ oidc_metadata' = NoMetadata
    /\ jwk_set_cache' = EmptyCache
    /\ signing_key' = NoStr
    /\ jwt_data' = NoData
    /\ result' = NoResult
    /\ trace' = <<>>
    /\ net' = <<>>
    /\ failed' = FALSE
    /\ UNCHANGED <<has_crypto, now>>

Return ==
    /\ pc = "done"
    /\ Forget
    /\ UNCHANGED calls

\* The clock moves between invocations.  Within one call the clock is read
\* once, by jwt.decode (the key-set cache is stamped and never read again by
\* the call that filled it), so time passing inside a call shows nothing that
\* time passing before it does not.
Tick ==
    /\ pc = "idle"
    /\ now < MaxTicks * TickStep
    /\ now' = now + TickStep
    /\ UNCHANGED <<has_crypto, pc, event, jwt, id_token, resp, oidc_metadata,
                   jwk_set_cache, signing_key, jwt_data, result, trace, net, failed,
                   calls>>

Next ==
    \/ Invoke
    \/ ExtractToken
    \/ FetchDiscovery
    \/ ParseMetadata
    \/ GetSigningKey
    \/ Decode
    \/ BuildAllow
    \/ BuildDeny
    \/ Return
    \/ Tick

Spec == Init /\ [][Next]_vars

----------------------------------------------------------------------------
(* Repeated validation of one request: the same event and token are handed *)
(* to lambda_handler up to MaxCalls times and every completed call is      *)
(* recorded with its time, its result and the fetches it made.             *)

ValidationEvents == {e \in Events : e.headers = << <<authorization, BearerTok3>> >>}

InvokeFirst ==
    /\ pc = "idle"
    /\ calls = <<>>
    /\ \E e \in ValidationEvents, t \in Tokens : Begin(e, t)

InvokeAgain ==
    /\ pc = "idle"
    /\ calls # <<>>
    /\ Len(calls) < MaxCalls
    /\ Begin(calls[1].event, calls[1].jwt)

ReturnRecorded ==
    /\ pc = "done"
    /\ calls' = Append(calls, [event |-> event, jwt |-> jwt, at |-> now,
                               result |-> result, net |-> net])
    /\ Forget

NextCache ==
    \/ InvokeFirst
    \/ InvokeAgain
    \/ ExtractToken
    \/ FetchDiscovery
    \/ ParseMetadata
    \/ GetSigningKey
    \/ Decode
    \/ BuildAllow
    \/ BuildDeny
    \/ ReturnRecorded
    \/ Tick

SpecCache == Init /\ [][NextCache]_vars

----------------------------------------------------------------------------
(* get_id_token alone, over every authorization value made of an optional  *)
(* prefix and a body of at most MaxBodyLen characters                      *)

BodyAlphabet == {"a", "_", ".", "!"}

Bodies == UNION {[1..n -> BodyAlphabet] : n \in 0..MaxBodyLen}

Prefixes == { <<>>, Bearer \o <<" ">>, Bearer \o <<"\t">>, Bearer }

InitToken ==
    /\ has_crypto = TRUE
    /\ now = 0
    /\ pc = "get_id_token"
    /\ \E p \in Prefixes, b \in Bodies :
          event = [headers |-> << <<Authorization, p \o b>> >>,
                   methodArn |-> "arn:aws:execute-api:us-west-2:123456789012:api/prod/GET/resource"]
    /\ jwt = ValidToken
    /\ id_token = <<>>
    /\ resp = NoResp
    /\ oidc_metadata = NoMetadata
    /\ jwk_set_cache = EmptyCache
    /\ signing_key = NoStr
    /\ jwt_data = NoData
    /\ result = NoResult
    /\ trace = <<"Start">>
    /\ net = <<>>
    /\ failed = FALSE
    /\ calls = <<>>

NextToken == ExtractToken

SpecToken == InitToken /\ [][NextToken]_vars

----------------------------------------------------------------------------
(* Vocabulary of the properties *)

Effect(r) == r.policy.policyDocument.Statement[1].Effect

IsAllow(r) == r.kind = "returned" /\ Effect(r) = "Allow"
IsDeny(r) == r.kind = "returned" /\ Effect(r) = "Deny"

\* the one shape of a Deny decision for a resource: written out, field by field
DenyShape(resource) ==
    [principalId |-> "username",
     policyDocument |->
        [Version |-> "2012-10-17",
         Statement |-> << [Action |-> "execute-api:Invoke",
                           Effect |-> "Deny",
                           Resource |-> resource] >>]]

\* the Allow decision for a resource and a subject: written out, field by field
AllowShape(resource, subject) ==
    [principalId |-> subject,
     policyDocument |->
        [Version |-> "2012-10-17",
         Statement |-> << [Action |-> "execute-api:Invoke",
                           Effect |-> "Allow",
                           Resource |-> resource] >>],
     context |-> [username |-> subject]]

Extracted == get_id_token(event).raised = ""

\* facts about the token of the current request at the current time
Expired == jwt.exp # NoInt /\ jwt.exp <= now
NotYetValid == jwt.nbf # NoInt /\ jwt.nbf > now
IssuedLater == jwt.iat # NoInt /\ jwt.iat > now
SignedByItsKey == jwt.alg = "RS256" /\ jwt.signer = jwt.kid
ClaimsInOrder ==
    /\ ~Expired /\ ~NotYetValid /\ ~IssuedLater
    /\ jwt.iss = AUTHORITY
    /\ jwt.aud = AUDIENCE

\* the key set was obtained by this call / and holds the token's key
KeySetObtained == jwk_set_cache.filled
KeyPresent == KeySetObtained /\ jwt.kid \in jwk_set_cache.keys
KeyMissing == KeySetObtained /\ jwt.kid \notin jwk_set_cache.keys

Count(seq, w) == Cardinality({i \in DOMAIN seq : seq[i].what = w})

----------------------------------------------------------------------------
(* C1 *)

\* C1: lambda_handler returns Allow only when every stage succeeded: a token
\* was extracted, the discovery fetch was made and answered 200, the key with
\* the token's kid was found in the fetched key set, and signature, exp, nbf,
\* iat, iss and aud passed verification.  A token whose exp is in the past, whose
\* aud differs from AUDIENCE or whose key the key set lacks is never allowed,
\* and is denied whenever the key set was obtained.
C1_AllowOnlyWhenAllStagesSucceeded ==
    pc = "done" =>
        /\ IsAllow(result) =>
              /\ Extracted /\ id_token = get_id_token(event).value
              /\ Count(net, "discovery") = 1 /\ resp.status_code = 200
              /\ Count(net, "jwks") >= 1 /\ KeyPresent /\ signing_key = jwt.kid
              /\ SignedByItsKey
              /\ ClaimsInOrder
        /\ (Expired \/ jwt.aud # AUDIENCE \/ KeyMissing) =>
              /\ ~IsAllow(result)
              /\ KeySetObtained => IsDeny(result)

\* an expired, otherwise valid token went through validation and was denied
C1_Witness ==
    /\ pc = "done"
    /\ IsDeny(result)
    /\ jwt = [ValidToken EXCEPT !.exp = 0]
    /\ KeyPresent
    /\ "Validate" \in Range(trace)

----------------------------------------------------------------------------
(* C2 *)

\* C2: a request whose token is signed by a key present in the key set the
\* call obtained (so discovery answered 200), with iss, aud, exp, nbf and iat in
\* order and a sub claim, gets the decision with Effect Allow, the request's
\* resource, principalId = sub and context.username = sub.
C2_ValidTokenAllowed ==
    ( /\ pc = "done"
      /\ Extracted
      /\ resp.status_code = 200
      /\ KeyPresent
      /\ SignedByItsKey
      /\ ClaimsInOrder
      /\ jwt.sub # NoStr )
    => result = Returned(AllowShape(event.methodArn, jwt.sub))

\* the valid token, presented without the Bearer prefix, was allowed
C2_Witness ==
    /\ pc = "done"
    /\ IsAllow(result)
    /\ event.headers = << <<authorization, Tok3>> >>
    /\ jwt = ValidToken
    /\ result.policy.principalId = "user-123"
    /\ result.policy.context.username = "user-123"

----------------------------------------------------------------------------
(* C3 *)

\* C3: whenever token extraction fails (no authorization entry under any case
\* variant, or a value that does not match the pattern), lambda_handler returns
\* a Deny decision with no context field.
C3_ExtractionFailureDenied ==
    (pc = "done" /\ ~Extracted) =>
        /\ IsDeny(result)
        /\ "context" \notin DOMAIN result.policy

----------------------------------------------------------------------------
(* C4 *)

\* C4: every failure during key resolution and validation (discovery timeout,
\* unparseable or incomplete discovery body, key-set fetch failure, no matching
\* key, verified claims without a subject) ends in a well-formed Deny decision,
\* never in an exception.
C4_ResolutionFailureDenied ==
    (pc = "done" /\ Extracted /\ failed) =>
        result = Returned(DenyShape(event.methodArn))

----------------------------------------------------------------------------
(* C5 *)

\* C5: when the discovery endpoint answers with a status other than 200, the
\* handler returns Deny for every well-shaped token and raises nothing.
C5_Non200Denied ==
    ( /\ pc = "done"
      /\ Extracted
      /\ Count(net, "discovery") = 1
      /\ resp.status_code \notin {0, 200} )
    => IsDeny(result)

\* discovery answered 404 to a request with the valid token, which was denied
C5_Witness ==
    /\ pc = "done"
    /\ resp.status_code = 404
    /\ jwt = ValidToken
    /\ IsDeny(result)

----------------------------------------------------------------------------
(* C7 *)

\* C7: every Deny decision has the same shape whichever stage failed: the
\* fixed non-empty placeholder as principalId, one statement with Effect Deny
\* and the request's resource, no context field, and nothing that depends on
\* the token's claims.
C7_DenyShapeFixed ==
    (pc = "done" /\ IsDeny(result)) =>
        /\ result.policy = DenyShape(event.methodArn)
        /\ result.policy.principalId # ""
        /\ "context" \notin DOMAIN result.policy
        /\ Len(result.policy.policyDocument.Statement) = 1

\* a token with a wrong audience and the subject user-123 was denied by validation
C7_Witness ==
    /\ pc = "done"
    /\ IsDeny(result)
    /\ "Validate" \in Range(trace)
    /\ jwt.sub = "user-123"
    /\ jwt.aud = "other-api"

----------------------------------------------------------------------------
(* C9 *)

StageRank(st) ==
    CASE st = "Start" -> 0
      [] st = "ExtractToken" -> 1
      [] st = "ResolveKey" -> 2
      [] st = "Validate" -> 3
      [] OTHER -> 4

\* C9: each request goes Start, ExtractToken, ResolveKey, Validate, then Allow
\* or Deny: stages in that order and at most once, a failed fetch never
\* followed by another fetch, the discovery fetch only after a token was
\* extracted, the key-set fetch only after a 200 discovery answer, verification
\* only after a key was resolved, no fetch once a stage has failed (the handler
\* is then at its last steps, which fetch nothing), and every request ends in
\* exactly one of Allow and Deny.
C9_StateMachine ==
    /\ \A i, j \in DOMAIN trace : i < j => StageRank(trace[i]) < StageRank(trace[j])
    /\ Count(net, "discovery") <= 1
    /\ \A i \in DOMAIN net : ~net[i].ok => i = Len(net)
    /\ Count(net, "discovery") = 1 => (Extracted /\ id_token # <<>>)
    /\ Count(net, "jwks") >= 1 => (Count(net, "discovery") = 1 /\ resp.status_code = 200)
    /\ "Validate" \in Range(trace) => (KeyPresent /\ signing_key = jwt.kid)
    /\ failed => pc \in {"deny", "done"}
    /\ pc = "done" => (IsAllow(result) \/ IsDeny(result))

----------------------------------------------------------------------------
(* C6, C8: under SpecCache *)

WithinLifespan(i, j) == calls[j].at - calls[i].at < Lifespan

\* the token passes every check of jwt.decode at the given time
ValidAt(t, time) == jwt_decode(t, t.kid, AUTHORITY, AUDIENCE, time).raised = ""

\* C6: two validations within the key-set cache lifespan (360) make, together,
\* at most one discovery fetch and at most one key-set fetch.
C6_AtMostOneFetchPerLifespan ==
    \A i, j \in DOMAIN calls :
        (i < j /\ WithinLifespan(i, j)) =>
            /\ Count(calls[i].net \o calls[j].net, "discovery") <= 1
            /\ Count(calls[i].net \o calls[j].net, "jwks") <= 1

\* C8: the same valid token validated twice within the cache lifespan gets the
\* same Allow decision both times, whatever the endpoints answer in between.
C8_SameDecisionTwice ==
    \A i, j \in DOMAIN calls :
        ( /\ i < j
          /\ WithinLifespan(i, j)
          /\ calls[j].event = calls[i].event
          /\ calls[j].jwt = calls[i].jwt
          /\ ValidAt(calls[i].jwt, calls[i].at)
          /\ ValidAt(calls[j].jwt, calls[j].at)
          /\ IsAllow(calls[i].result) )
        => calls[j].result = calls[i].result

----------------------------------------------------------------------------
(* C10: under SpecToken *)

\* exactly three non-empty segments of class characters separated by single dots
ThreeSegments(s) ==
    \E i, j \in DOMAIN s :
        /\ 1 < i /\ i + 1 < j /\ j < Len(s)
        /\ s[i] = "." /\ s[j] = "."
        /\ \A k \in DOMAIN s \ {i, j} : IsTokenChar(s[k])

HasBearerSpace(s) ==
    /\ Len(s) > Len(Bearer)
    /\ SubSeq(s, 1, Len(Bearer) + 1) = Bearer \o <<" ">>

AfterBearerSpace(s) == SubSeq(s, Len(Bearer) + 2, Len(s))

HeaderValue == event.headers[1][2]

\* C10: get_id_token succeeds only on a value that is an optional literal
\* "Bearer " followed by exactly three non-empty segments over [A-Za-z0-9-_]
\* separated by single dots, and then returns those three segments; every other
\* value (a fourth segment, trailing characters) fails as malformed.
C10_ExactlyThreeSegments ==
    pc # "get_id_token" =>
        IF ThreeSegments(HeaderValue)
        THEN pc = "id_token_is_valid" /\ id_token = HeaderValue
        ELSE IF HasBearerSpace(HeaderValue) /\ ThreeSegments(AfterBearerSpace(HeaderValue))
        THEN pc = "id_token_is_valid" /\ id_token = AfterBearerSpace(HeaderValue)
        ELSE result = Raised("ValueError")

====
